---- MODULE Spec2Model ----
(***************************************************************************)
(* Model of the universal LLM adapter system: the retry wrapper            *)
(* (utils/llm_adapter.py), the provider adapters (utils/adapters/*.py),    *)
(* the helper create_llm_adapter (utils/llm_helpers.py) and the API key    *)
(* manager (utils/api_key_manager.py).                                     *)
(*                                                                         *)
(* Units: delays are in milliseconds, the jitter factor in tenths, costs   *)
(* in 1e-7 USD per 1000 tokens.                                            *)
(***************************************************************************)
EXTENDS Integers, Sequences, FiniteSets, TLC

VARIABLES
    \* ---- retry_with_exponential_backoff.wrapper (one call in progress) ----
    wpc,            \* "idle" | "running" | "returned" | "raised"
    max_retries,    \* the wrapper's max_retries
    jitter,         \* the wrapper's jitter flag
    attempt,        \* loop variable of `for attempt in range(max_retries)`
    delay,          \* local `delay`, in ms
    invocations,    \* outcomes of the invocations of func made by this call
    slept,          \* arguments of the time.sleep calls made by this call, in ms
    result,         \* what the wrapper handed to its caller (value or exception)
    \* ---- adapters and the generate call in progress ----
    adapters,       \* the live adapter instances, in order of construction
    genai_api_key,  \* google.generativeai's module-wide configured api key
    active,         \* index in adapters of the instance running generate, 0: none
    request,        \* the LLMRequest object passed to generate (mutable)
    orig_request,   \* the request as the caller built it
    validations,    \* validate_request calls made by this generate call
    net_calls,      \* vendor network calls issued by this generate call
    sent,           \* parameters of the last outgoing vendor call
    capabilities,   \* descriptor returned by the last get_model_capabilities
    listed,         \* return value of the last get_available_models call
    vendor_reply,   \* the vendor's answer to the last network call
    translation,    \* ms the last attempt spent building the vendor wire format
    \* ---- LLMAdapterFactory ----
    factory_adapters, \* LLMAdapterFactory._adapters: provider type -> adapter class
    registrations,  \* the register_adapter calls made so far, in order
    \* ---- API key manager ----
    secrets,        \* st.secrets: key name -> value
    environ,        \* os.environ: key name -> value
    api_keys,       \* st.session_state.api_keys
    azure_endpoint, \* st.session_state.azure_endpoint
    custom_providers, \* st.session_state.custom_providers
    last            \* return value of the last key-manager / helper call

retryVars == <<wpc, max_retries, jitter, attempt, delay, invocations, slept, result>>
genVars   == <<adapters, genai_api_key, active, request, orig_request,
               validations, net_calls, sent, capabilities, listed, vendor_reply,
               translation>>
facVars   == <<factory_adapters, registrations>>
keyVars   == <<secrets, environ, api_keys, azure_endpoint, custom_providers, last>>
vars      == <<retryVars, genVars, facVars, keyVars>>

None == "None"          \* Python's None where a text is expected
Nil == [nil |-> TRUE]   \* Python's None where an object is expected

Falsy(x) == x \in {None, ""}

(***************************************************************************)
(* Bounds of the model                                                     *)
(***************************************************************************)
MaxRetries == 3      \* largest max_retries handed to the bare wrapper
MaxAdapters == 2     \* adapter instances alive at once
MaxImages == 1       \* images in a request
MaxRegistrations == 3 \* register_adapter calls made by the caller

(***************************************************************************)
(* retry_with_exponential_backoff                                          *)
(***************************************************************************)
DefaultMaxRetries == 3
InitialDelayMs == 1000
ExponentialBase == 2

\* 0.5 + random.random() lies in [0.5, 1.5); in tenths
JitterTenths == {5, 10, 14}

\* outcomes of one invocation of an arbitrary wrapped callable
Values == {"v1", "v2"}
Exceptions == {"AuthenticationError", "ConnectionError"}
Returned(v) == [ok |-> TRUE, value |-> v]
Raised(t, why) == [ok |-> FALSE, type |-> t, why |-> why]
FuncOutcomes == {Returned(v) : v \in Values} \cup {Raised(e, "vendor") : e \in Exceptions}

Caught_NotAuthentication(o) == ~o.ok /\ o.type # "AuthenticationError"

\* `except Exception as e:` catches whatever func raised
Caught(o) == ~o.ok

IsLastAttempt_OffByOne(att, n) == att = n

\* `if attempt == max_retries - 1: raise`
IsLastAttempt(att, n) == att = n - 1

NextDelay_NoBackoff(d, jit, f) == d

NextDelay_JitterAdded(d, jit, f) ==
    IF jit THEN d * ExponentialBase + (d * f) \div 10 ELSE d * ExponentialBase

\* `delay *= exponential_base` then, with jitter, `delay *= (0.5 + random.random())`
NextDelay(d, jit, f) ==
    IF jit THEN (d * ExponentialBase * f) \div 10 ELSE d * ExponentialBase

\* the wrapper is entered: `delay = initial_delay`, then the for loop starts;
\* an empty range(max_retries) falls off the end of the function (returns None)
WrapperEnter(n, jit) ==
    /\ wpc = "idle"
    /\ max_retries' = n
    /\ jitter' = jit
    /\ attempt' = 0
    /\ delay' = InitialDelayMs
    /\ invocations' = <<>>
    /\ slept' = <<>>
    /\ IF n >= 1
       THEN wpc' = "running" /\ result' = Nil
       ELSE wpc' = "returned" /\ result' = Returned(None)

\* one iteration of the loop body, the invocation of func having ended with o
WrapperStep(o) ==
    /\ wpc = "running"
    /\ invocations' = Append(invocations, o)
    /\ UNCHANGED <<max_retries, jitter>>
    /\ IF o.ok
       THEN /\ wpc' = "returned"
            /\ result' = o
            /\ UNCHANGED <<attempt, delay, slept>>
       ELSE IF ~Caught(o) \/ IsLastAttempt(attempt, max_retries)
       THEN /\ wpc' = "raised"
            /\ result' = o
            /\ UNCHANGED <<attempt, delay, slept>>
       ELSE /\ slept' = Append(slept, delay)
            /\ \E f \in JitterTenths : delay' = NextDelay(delay, jitter, f)
            /\ attempt' = attempt + 1
            /\ IF attempt + 1 < max_retries
               THEN wpc' = "running" /\ result' = Nil
               ELSE wpc' = "returned" /\ result' = Returned(None)

\* the caller has taken the result; the wrapper can be called again
WrapperLeave ==
    /\ wpc \in {"returned", "raised"}
    /\ wpc' = "idle"
    /\ max_retries' = DefaultMaxRetries
    /\ jitter' = TRUE
    /\ attempt' = 0
    /\ delay' = InitialDelayMs
    /\ invocations' = <<>>
    /\ slept' = <<>>
    /\ result' = Nil

InitRetry ==
    /\ wpc = "idle"
    /\ max_retries = DefaultMaxRetries
    /\ jitter = TRUE
    /\ attempt = 0
    /\ delay = InitialDelayMs
    /\ invocations = <<>>
    /\ slept = <<>>
    /\ result = Nil

InitGenIdle ==
    /\ adapters = <<>>
    /\ genai_api_key = None
    /\ active = 0
    /\ request = Nil
    /\ orig_request = Nil
    /\ validations = 0
    /\ net_calls = 0
    /\ sent = Nil
    /\ capabilities = Nil
    /\ listed = Nil
    /\ vendor_reply = Nil
    /\ translation = 0

InitKeysIdle ==
    /\ secrets = <<>>
    /\ environ = <<>>
    /\ api_keys = <<>>
    /\ azure_endpoint = ""
    /\ custom_providers = <<>>
    /\ last = Nil

(***************************************************************************)
(* ModelCapabilities and the per-provider capability tables                *)
(***************************************************************************)
Caps(vision, streaming, functions, maxtok, cin, cout) ==
    [supports_vision |-> vision,
     supports_streaming |-> streaming,
     supports_function_calling |-> functions,
     max_tokens |-> maxtok,
     supports_system_prompt |-> TRUE,
     cost_per_1k_input_tokens |-> cin,
     cost_per_1k_output_tokens |-> cout]

\* ModelCapabilities(): the dataclass defaults
DefaultCaps == Caps(FALSE, FALSE, FALSE, 4096, 0, 0)

\* dict.get(model, default)
Get(map, key, default) == IF key \in DOMAIN map THEN map[key] ELSE default

OpenAIModels ==
    <<"gpt-4o", "gpt-4o-mini", "gpt-4-turbo", "gpt-4-vision-preview", "gpt-4",
      "gpt-3.5-turbo">>

OpenAICapabilitiesMap ==
    ("gpt-4o" :> Caps(TRUE, TRUE, TRUE, 4096, 50000, 150000))
    @@ ("gpt-4o-mini" :> Caps(TRUE, TRUE, TRUE, 16384, 1500, 6000))
    @@ ("gpt-4-turbo" :> Caps(TRUE, TRUE, TRUE, 4096, 100000, 300000))
    @@ ("gpt-4-vision-preview" :> Caps(TRUE, TRUE, FALSE, 4096, 100000, 300000))
    @@ ("gpt-4" :> Caps(FALSE, TRUE, TRUE, 8192, 300000, 600000))
    @@ ("gpt-3.5-turbo" :> Caps(FALSE, TRUE, TRUE, 4096, 5000, 15000))

OpenAICapabilities(model) == Get(OpenAICapabilitiesMap, model, DefaultCaps)

AnthropicModels ==
    <<"claude-3-5-sonnet-20241022", "claude-3-opus-20240229",
      "claude-3-sonnet-20240229", "claude-3-haiku-20240307">>

AnthropicCapabilitiesMap ==
    ("claude-3-5-sonnet-20241022" :> Caps(TRUE, TRUE, TRUE, 8192, 30000, 150000))
    @@ ("claude-3-opus-20240229" :> Caps(TRUE, TRUE, TRUE, 4096, 150000, 750000))
    @@ ("claude-3-sonnet-20240229" :> Caps(TRUE, TRUE, TRUE, 4096, 30000, 150000))
    @@ ("claude-3-haiku-20240307" :> Caps(TRUE, TRUE, TRUE, 4096, 2500, 12500))

AnthropicCapabilities(model) == Get(AnthropicCapabilitiesMap, model, DefaultCaps)

GeminiModels ==
    <<"gemini-2.0-flash-exp", "gemini-1.5-pro", "gemini-1.5-flash",
      "gemini-1.5-flash-8b">>

GeminiCapabilitiesMap ==
    ("gemini-2.0-flash-exp" :> Caps(TRUE, TRUE, TRUE, 8192, 0, 0))
    @@ ("gemini-1.5-pro" :> Caps(TRUE, TRUE, TRUE, 8192, 12500, 50000))
    @@ ("gemini-1.5-flash" :> Caps(TRUE, TRUE, TRUE, 8192, 750, 3000))
    @@ ("gemini-1.5-flash-8b" :> Caps(TRUE, TRUE, TRUE, 8192, 375, 1500))

GeminiCapabilities(model) == Get(GeminiCapabilitiesMap, model, DefaultCaps)

CohereModels == <<"command-r-plus", "command-r", "command", "command-light">>

CohereCapabilitiesMap ==
    ("command-r-plus" :> Caps(FALSE, TRUE, TRUE, 4096, 30000, 150000))
    @@ ("command-r" :> Caps(FALSE, TRUE, TRUE, 4096, 5000, 15000))
    @@ ("command" :> Caps(FALSE, TRUE, FALSE, 4096, 10000, 20000))
    @@ ("command-light" :> Caps(FALSE, TRUE, FALSE, 4096, 3000, 6000))

CohereCapabilities(model) == Get(CohereCapabilitiesMap, model, DefaultCaps)

AzureModels == <<"gpt-4o", "gpt-4-turbo", "gpt-4-vision", "gpt-4", "gpt-35-turbo">>

AzureCapabilitiesMap ==
    ("gpt-4o" :> Caps(TRUE, TRUE, TRUE, 4096, 50000, 150000))
    @@ ("gpt-4-turbo" :> Caps(TRUE, TRUE, TRUE, 4096, 100000, 300000))
    @@ ("gpt-4-vision" :> Caps(TRUE, TRUE, FALSE, 4096, 100000, 300000))
    @@ ("gpt-4" :> Caps(FALSE, TRUE, TRUE, 8192, 300000, 600000))
    @@ ("gpt-35-turbo" :> Caps(FALSE, TRUE, TRUE, 4096, 5000, 15000))

AzureCapabilities(model) == Get(AzureCapabilitiesMap, model, DefaultCaps)

GroqModels ==
    <<"llama-3.3-70b-versatile", "llama-3.1-70b-versatile", "llama-3.1-8b-instant",
      "mixtral-8x7b-32768", "gemma2-9b-it", "llama-3.2-90b-vision-preview",
      "llama-3.2-11b-vision-preview">>

GroqVisionModels == {"llama-3.2-90b-vision-preview", "llama-3.2-11b-vision-preview"}

GroqCapabilitiesMap ==
    ("llama-3.3-70b-versatile" :> Caps(FALSE, TRUE, TRUE, 8192, 5900, 7900))
    @@ ("llama-3.1-70b-versatile" :> Caps(FALSE, TRUE, TRUE, 8192, 5900, 7900))
    @@ ("llama-3.1-8b-instant" :> Caps(FALSE, TRUE, TRUE, 8192, 500, 800))
    @@ ("mixtral-8x7b-32768" :> Caps(FALSE, TRUE, TRUE, 32768, 2400, 2400))
    @@ ("gemma2-9b-it" :> Caps(FALSE, TRUE, FALSE, 8192, 2000, 2000))
    @@ ("llama-3.2-90b-vision-preview" :> Caps(TRUE, TRUE, FALSE, 8192, 9000, 9000))
    @@ ("llama-3.2-11b-vision-preview" :> Caps(TRUE, TRUE, FALSE, 8192, 1800, 1800))

GroqCapabilities_PlainDefault(model) == Get(GroqCapabilitiesMap, model, DefaultCaps)

\* the fallback is ModelCapabilities(supports_vision=model in vision_models,
\* supports_streaming=True, max_tokens=8192)
GroqCapabilities(model) ==
    Get(GroqCapabilitiesMap, model,
        Caps(model \in GroqVisionModels, TRUE, FALSE, 8192, 0, 0))

OpenRouterModels ==
    <<"google/gemini-2.0-flash-exp:free", "google/gemini-pro-1.5",
      "google/gemini-flash-1.5", "openai/gpt-4o", "openai/gpt-4-turbo",
      "openai/gpt-3.5-turbo", "anthropic/claude-3.5-sonnet",
      "anthropic/claude-3-opus", "anthropic/claude-3-haiku",
      "meta-llama/llama-3.1-405b-instruct", "meta-llama/llama-3.1-70b-instruct",
      "mistralai/mistral-large", "mistralai/mixtral-8x7b-instruct">>

OpenRouterVisionModels ==
    {"google/gemini-2.0-flash-exp:free", "google/gemini-pro-1.5",
     "google/gemini-flash-1.5", "openai/gpt-4o", "openai/gpt-4-turbo",
     "anthropic/claude-3.5-sonnet", "anthropic/claude-3-opus"}

\* the texts that may surround a listed name in the model identifiers drawn here
Affixes == {"", ":nitro", "-2024"}

\* Python's `vm in model` on strings: vm occurs in model
Contains(model, vm) == \E pre \in Affixes, suf \in Affixes : pre \o vm \o suf = model

\* no table: one descriptor, vision by substring match
OpenRouterCapabilities(model) ==
    Caps(\E vm \in OpenRouterVisionModels : Contains(model, vm),
         TRUE, TRUE, 8192, 0, 0)

HuggingFaceModels ==
    <<"meta-llama/Meta-Llama-3-8B-Instruct", "meta-llama/Meta-Llama-3-70B-Instruct",
      "mistralai/Mistral-7B-Instruct-v0.2", "mistralai/Mixtral-8x7B-Instruct-v0.1",
      "google/gemma-7b-it", "microsoft/Phi-3-mini-4k-instruct">>

\* no table: the same descriptor for every model
HuggingFaceCapabilities(model) == Caps(FALSE, TRUE, FALSE, 4096, 0, 0)

\* no table: the same descriptor for every model
CustomCapabilities(model) == Caps(TRUE, TRUE, TRUE, 4096, 0, 0)

Classes ==
    {"openai", "anthropic", "gemini", "cohere", "openrouter", "azure",
     "huggingface", "groq", "custom"}

\* the provider's capability table, empty where the adapter keeps none
CapabilityTable(cls) ==
    CASE cls = "openai" -> DOMAIN OpenAICapabilitiesMap
      [] cls = "anthropic" -> DOMAIN AnthropicCapabilitiesMap
      [] cls = "gemini" -> DOMAIN GeminiCapabilitiesMap
      [] cls = "cohere" -> DOMAIN CohereCapabilitiesMap
      [] cls = "azure" -> DOMAIN AzureCapabilitiesMap
      [] cls = "groq" -> DOMAIN GroqCapabilitiesMap
      [] OTHER -> {}

\* adapter.get_model_capabilities(model), dispatched on the adapter's class
get_model_capabilities(cls, model) ==
    CASE cls = "openai" -> OpenAICapabilities(model)
      [] cls = "anthropic" -> AnthropicCapabilities(model)
      [] cls = "gemini" -> GeminiCapabilities(model)
      [] cls = "cohere" -> CohereCapabilities(model)
      [] cls = "openrouter" -> OpenRouterCapabilities(model)
      [] cls = "azure" -> AzureCapabilities(model)
      [] cls = "huggingface" -> HuggingFaceCapabilities(model)
      [] cls = "groq" -> GroqCapabilities(model)
      [] cls = "custom" -> CustomCapabilities(model)

\* the built-in adapters' get_available_models(): a literal list
AvailableModels(cls) ==
    CASE cls = "openai" -> OpenAIModels
      [] cls = "anthropic" -> AnthropicModels
      [] cls = "gemini" -> GeminiModels
      [] cls = "cohere" -> CohereModels
      [] cls = "openrouter" -> OpenRouterModels
      [] cls = "azure" -> AzureModels
      [] cls = "huggingface" -> HuggingFaceModels
      [] cls = "groq" -> GroqModels

\* self.default_model as set by each built-in __init__
DefaultModel(cls) ==
    CASE cls = "openai" -> "gpt-4o"
      [] cls = "anthropic" -> "claude-3-5-sonnet-20241022"
      [] cls = "gemini" -> "gemini-2.0-flash-exp"
      [] cls = "cohere" -> "command-r-plus"
      [] cls = "openrouter" -> "google/gemini-2.0-flash-exp:free"
      [] cls = "azure" -> "gpt-4o"
      [] cls = "huggingface" -> "meta-llama/Meta-Llama-3-8B-Instruct"
      [] cls = "groq" -> "llama-3.3-70b-versatile"

(***************************************************************************)
(* Adapter instances                                                       *)
(***************************************************************************)
BuiltinClasses == Classes \ {"custom"}

\* the vendor client handle an instance holds: its own client object built
\* with the api key, or (Gemini) the google.generativeai module itself
OwnClient(key) == [kind |-> "own", api_key |-> key]
ModuleClient == [kind |-> "module", api_key |-> None]

Adapter(cls, key, model, endpoint, base_url, name, client) ==
    [cls |-> cls, api_key |-> key, default_model |-> model, endpoint |-> endpoint,
     base_url |-> base_url, provider_name |-> name, client |-> client]

\* the provider string each generate puts in its LLMResponse
ProviderName(cls) ==
    CASE cls = "openai" -> "OpenAI"
      [] cls = "anthropic" -> "Anthropic"
      [] cls = "gemini" -> "Google Gemini"
      [] cls = "cohere" -> "Cohere"
      [] cls = "openrouter" -> "OpenRouter"
      [] cls = "azure" -> "Azure OpenAI"
      [] cls = "huggingface" -> "Hugging Face"
      [] cls = "groq" -> "Groq"

\* keyword arguments of a constructor call; None: not passed
Kwargs(endpoint, base_url, default_model, provider_name) ==
    [endpoint |-> endpoint, base_url |-> base_url, default_model |-> default_model,
     provider_name |-> provider_name]
NoKwargs == Kwargs(None, None, None, None)

Constructed(a, genai) == [ok |-> TRUE, adapter |-> a, genai |-> genai]
ConstructFailed(t, why, genai) == [ok |-> FALSE, type |-> t, why |-> why, genai |-> genai]

AzureInit_EndpointUnchecked(key, kw, genai) ==
    Constructed(Adapter("azure", key, DefaultModel("azure"), kw.endpoint, None,
                        ProviderName("azure"), OwnClient(key)), genai)

\* AzureOpenAIAdapter.__init__: `if not endpoint: raise ValueError`, before
\* the AzureOpenAI client is built
AzureInit(key, kw, genai) ==
    IF Falsy(kw.endpoint)
    THEN ConstructFailed("ValueError", "endpoint_required", genai)
    ELSE Constructed(Adapter("azure", key, DefaultModel("azure"), kw.endpoint, None,
                             ProviderName("azure"), OwnClient(key)), genai)

\* GeminiAdapter.__init__: genai.configure(api_key=api_key); self.genai = genai
GeminiInit(key, kw, genai) ==
    Constructed(Adapter("gemini", key, DefaultModel("gemini"), None, None,
                        ProviderName("gemini"), ModuleClient), key)

\* CustomLLMAdapter.__init__
CustomInit(key, kw, genai) ==
    Constructed(Adapter("custom", key,
                        IF kw.default_model = None THEN "gpt-4o" ELSE kw.default_model,
                        None,
                        IF Falsy(kw.base_url) THEN "https://api.openai.com/v1"
                                              ELSE kw.base_url,
                        IF kw.provider_name = None THEN "Custom" ELSE kw.provider_name,
                        OwnClient(key)), genai)

\* the __init__ of the adapters that build their own client from the key alone
PlainInit(cls, key, kw, genai) ==
    Constructed(Adapter(cls, key, DefaultModel(cls), None, None, ProviderName(cls),
                        OwnClient(key)), genai)

\* adapter_class(api_key=api_key, **kwargs); genai: the module-wide key before
Construct(cls, key, kw, genai) ==
    CASE cls = "azure" -> AzureInit(key, kw, genai)
      [] cls = "gemini" -> GeminiInit(key, kw, genai)
      [] cls = "custom" -> CustomInit(key, kw, genai)
      [] OTHER -> PlainInit(cls, key, kw, genai)

\* the api key the instance's vendor call is made with
ClientKey(a, genai) == IF a.client.kind = "module" THEN genai ELSE a.client.api_key

(***************************************************************************)
(* LLMRequest, validate_request and generate                               *)
(***************************************************************************)
\* the prompt is known by its number of words; no system prompt
PromptWords == 10
Request(model, images, maxtok) ==
    [model |-> model, images |-> images, max_tokens |-> maxtok,
     prompt_words |-> PromptWords]

ResolveModel_DefaultOnly(req, a) == a.default_model

\* `request.model or self.default_model`
ResolveModel(req, a) == IF Falsy(req.model) THEN a.default_model ELSE req.model

RejectsImages_Never(req, caps) == FALSE

\* `if request.images and not capabilities.supports_vision: raise ValueError`
RejectsImages(req, caps) == req.images > 0 /\ ~caps.supports_vision

ClampMaxTokens_Keep(maxtok, ceiling) == maxtok

\* `if request.max_tokens > capabilities.max_tokens: request.max_tokens = ...`
ClampMaxTokens(maxtok, ceiling) == IF maxtok > ceiling THEN ceiling ELSE maxtok

UnsupportedModality == Raised("ValueError", "unsupported_modality")

validate_request_DropsImages(req, caps) ==
    [ok |-> TRUE, exc |-> Nil,
     request |-> [req EXCEPT !.images = IF caps.supports_vision THEN @ ELSE 0,
                             !.max_tokens = ClampMaxTokens(@, caps.max_tokens)]]

\* BaseLLMAdapter.validate_request: the exception raised, or the request as
\* it leaves validation
validate_request(req, caps) ==
    IF RejectsImages(req, caps)
    THEN [ok |-> FALSE, exc |-> UnsupportedModality, request |-> req]
    ELSE [ok |-> TRUE, exc |-> Nil,
          request |-> [req EXCEPT !.max_tokens = ClampMaxTokens(req.max_tokens,
                                                                 caps.max_tokens)]]

\* Cohere and Hugging Face: `if request.images: raise ValueError` after validation
TextOnlyRejects(a, req) == a.cls \in {"cohere", "huggingface"} /\ req.images > 0

\* replies of the vendor to one network call: a text (known by its number of
\* words), the token counts when the reply carries them, and the ms the call
\* took; or an exception of the vendor SDK
Usage(i, o) == [present |-> TRUE, input |-> i, output |-> o]
NoUsage == [present |-> FALSE]
Short == [text |-> "ok", words |-> 1]
Long == [text |-> "no acute findings seen", words |-> 4]
VendorOk(t, usage, took) ==
    [ok |-> TRUE, text |-> t.text, words |-> t.words, usage |-> usage, took |-> took]

\* exception classes of the vendor SDKs (openai.AuthenticationError,
\* openai.APIConnectionError and their counterparts in the other SDKs)
VendorExceptions == {"vendor.AuthenticationError", "vendor.APIConnectionError"}
VendorReplies ==
    {VendorOk(Short, Usage(10, 5), 0), VendorOk(Long, Usage(10, 5), 7),
     VendorOk(Long, NoUsage, 7)}
    \cup {[ok |-> FALSE, type |-> e] : e \in VendorExceptions}

\* InferenceClient.text_generation returns the generated text alone
RepliesOf(a) ==
    IF a.cls = "huggingface"
    THEN {r \in VendorReplies : r.ok => ~r.usage.present}
    ELSE VendorReplies

\* ms one attempt spends building the messages and encoding the images
EncodeMs == 3
TranslationMs(req) == req.images * EncodeMs

\* the outgoing vendor call of generate
Outgoing(a, req, genai) ==
    [model |-> ResolveModel(req, a), max_tokens |-> req.max_tokens,
     images |-> req.images, api_key |-> ClientKey(a, genai),
     endpoint |-> a.endpoint, base_url |-> a.base_url]

calculate_cost_InputOnly(cls, input_tokens, output_tokens, model) ==
    input_tokens * get_model_capabilities(cls, model).cost_per_1k_input_tokens

\* BaseLLMAdapter.calculate_cost, in 1e-10 USD:
\* (input_tokens / 1000) * cost_per_1k_input + (output_tokens / 1000) * cost_per_1k_output
calculate_cost(cls, input_tokens, output_tokens, model) ==
    LET c == get_model_capabilities(cls, model) IN
    input_tokens * c.cost_per_1k_input_tokens + output_tokens * c.cost_per_1k_output_tokens

\* `int(len(text.split()) * 1.3)`
EstimateTokens(words) == (words * 13) \div 10

\* how each generate reads the token counts off the vendor's reply: the
\* pair of counts, or the exception the read raises
TokenCounts(a, req, reply) ==
    CASE a.cls = "huggingface" ->
            [ok |-> TRUE, input |-> EstimateTokens(req.prompt_words),
             output |-> EstimateTokens(reply.words)]
      [] a.cls \in {"openai", "anthropic", "azure"} ->
            IF reply.usage.present
            THEN [ok |-> TRUE, input |-> reply.usage.input, output |-> reply.usage.output]
            ELSE [ok |-> FALSE, input |-> 0, output |-> 0]
      [] OTHER ->
            IF reply.usage.present
            THEN [ok |-> TRUE, input |-> reply.usage.input, output |-> reply.usage.output]
            ELSE [ok |-> TRUE, input |-> 0, output |-> 0]

\* `latency = end_time - start_time`: start_time is taken right after
\* validation, end_time right after the vendor call
Latency(tr, reply) == tr + reply.took

LLMResponse(text, provider, model, latency, input_tokens, output_tokens, cost) ==
    [text |-> text, provider |-> provider, model |-> model, latency |-> latency,
     input_tokens |-> input_tokens, output_tokens |-> output_tokens, cost |-> cost]

\* what generate does with the vendor's reply: the LLMResponse, or the
\* exception (the custom adapter wraps every exception in a ValueError)
AfterVendor(a, req, reply, tr) ==
    IF ~reply.ok
    THEN IF a.cls = "custom" THEN Raised("ValueError", "vendor")
         ELSE Raised(reply.type, "vendor")
    ELSE LET model == ResolveModel(req, a)
             n == TokenCounts(a, req, reply)
         IN IF ~n.ok THEN Raised("AttributeError", "usage")
            ELSE Returned(LLMResponse(reply.text, a.provider_name, model,
                                      Latency(tr, reply), n.input, n.output,
                                      calculate_cost(a.cls, n.input, n.output, model)))

\* adapter.generate(request): the decorated method, so the wrapper is entered
\* with its default parameters
GenerateCall(i, req) ==
    /\ i \in 1..Len(adapters)
    /\ WrapperEnter(DefaultMaxRetries, TRUE)
    /\ active' = i
    /\ request' = req
    /\ orig_request' = req
    /\ validations' = 0
    /\ net_calls' = 0
    /\ sent' = Nil
    /\ capabilities' = Nil
    /\ listed' = Nil
    /\ vendor_reply' = Nil
    /\ translation' = 0
    /\ UNCHANGED <<facVars, adapters, genai_api_key, keyVars>>

\* one invocation of the undecorated generate body by the wrapper
GenerateAttempt(reply) ==
    /\ active # 0
    /\ reply \in RepliesOf(adapters[active])
    /\ LET a == adapters[active]
           caps == get_model_capabilities(a.cls, ResolveModel(request, a))
           v == validate_request(request, caps)
       IN /\ validations' = validations + 1
          /\ capabilities' = caps
          /\ request' = v.request
          /\ IF ~v.ok
             THEN WrapperStep(v.exc)
                  /\ UNCHANGED <<net_calls, sent, vendor_reply, translation>>
             ELSE IF TextOnlyRejects(a, v.request)
             THEN WrapperStep(Raised("ValueError", "image_inputs"))
                  /\ UNCHANGED <<net_calls, sent, vendor_reply, translation>>
             ELSE /\ net_calls' = net_calls + 1
                  /\ sent' = Outgoing(a, v.request, genai_api_key)
                  /\ vendor_reply' = reply
                  /\ translation' = TranslationMs(v.request)
                  /\ WrapperStep(AfterVendor(a, v.request, reply,
                                              TranslationMs(v.request)))
    /\ UNCHANGED <<facVars, adapters, genai_api_key, active, orig_request, listed, keyVars>>

\* the caller has the response or the exception
GenerateReturn ==
    /\ active # 0
    /\ WrapperLeave
    /\ active' = 0
    /\ request' = Nil
    /\ orig_request' = Nil
    /\ validations' = 0
    /\ net_calls' = 0
    /\ sent' = Nil
    /\ capabilities' = Nil
    /\ vendor_reply' = Nil
    /\ translation' = 0
    /\ UNCHANGED <<facVars, adapters, genai_api_key, listed, keyVars>>

\* replies of a custom endpoint to client.models.list(): it raises, or lists
ListingFails == [ok |-> FALSE, models |-> <<>>]
Listing(models) == [ok |-> TRUE, models |-> models]
EndpointListings ==
    {ListingFails, Listing(<<"local-model", "other-model">>), Listing(<<"other-model">>)}

get_available_models_AlwaysFetch(a, listing) ==
    [net_calls |-> 1, models |-> IF listing.ok THEN listing.models ELSE <<a.default_model>>]

\* adapter.get_available_models(): the built-in adapters return their literal
\* list, the custom adapter asks its endpoint and falls back to [default_model]
get_available_models(a, listing) ==
    IF a.cls = "custom"
    THEN [net_calls |-> 1,
          models |-> IF listing.ok THEN listing.models ELSE <<a.default_model>>]
    ELSE [net_calls |-> 0, models |-> AvailableModels(a.cls)]

\* a caller lists the models of a live instance
GetAvailableModels(i, listing) ==
    /\ wpc = "idle"
    /\ i \in 1..Len(adapters)
    /\ listed' = [adapter |-> adapters[i], ret |-> get_available_models(adapters[i], listing)]
    /\ UNCHANGED <<facVars, retryVars, adapters, genai_api_key, active, request, orig_request,
                   validations, net_calls, sent, capabilities, vendor_reply, translation,
                   keyVars>>

(***************************************************************************)
(* LLMAdapterFactory                                                       *)
(***************************************************************************)
\* the members of ProviderType
ProviderTypes == BuiltinClasses

\* what importing utils.adapters registers, in the order of its imports
ImportedRegistrations ==
    <<<<"openai", "openai">>, <<"anthropic", "anthropic">>, <<"gemini", "gemini">>,
      <<"cohere", "cohere">>, <<"openrouter", "openrouter">>, <<"azure", "azure">>,
      <<"huggingface", "huggingface">>, <<"groq", "groq">>>>
ImportedAdapters == [p \in ProviderTypes |-> p]

register_adapter_KeepFirst(reg, provider, cls) ==
    [p \in DOMAIN reg \cup {provider} |-> IF p \in DOMAIN reg THEN reg[p] ELSE cls]

\* LLMAdapterFactory.register_adapter: `cls._adapters[provider] = adapter_class`
register_adapter(reg, provider, cls) ==
    [p \in DOMAIN reg \cup {provider} |-> IF p = provider THEN cls ELSE reg[p]]

\* LLMAdapterFactory.create_adapter: `if provider not in cls._adapters: raise
\* ValueError`, else `adapter_class(api_key=api_key, **kwargs)`
create_adapter(reg, provider, key, kw, genai) ==
    IF provider \notin DOMAIN reg
    THEN ConstructFailed("ValueError", "unsupported_provider", genai)
    ELSE Construct(reg[provider], key, kw, genai)

\* utils.adapters has been imported: every built-in adapter is registered
InitFactory ==
    /\ factory_adapters = ImportedAdapters
    /\ registrations = ImportedRegistrations

\* only utils.llm_adapter has been imported: `_adapters = {}`
InitFactoryEmpty ==
    /\ factory_adapters = <<>>
    /\ registrations = <<>>

\* a caller registers an adapter class for a provider type
RegisterAdapter(provider, cls) ==
    /\ wpc = "idle"
    /\ Len(registrations) < MaxRegistrations
    /\ factory_adapters' = register_adapter(factory_adapters, provider, cls)
    /\ registrations' = Append(registrations, <<provider, cls>>)
    /\ last' = Nil
    /\ UNCHANGED <<retryVars, genVars, secrets, environ, api_keys, azure_endpoint,
                   custom_providers>>

\* a caller calls LLMAdapterFactory.create_adapter(provider, api_key, **kwargs):
\* the instance joins the live ones, or the call raises
CreateAdapter(provider, key, kw) ==
    /\ wpc = "idle"
    /\ Len(adapters) < MaxAdapters
    /\ LET c == create_adapter(factory_adapters, provider, key, kw, genai_api_key) IN
       /\ genai_api_key' = c.genai
       /\ adapters' = IF c.ok THEN Append(adapters, c.adapter) ELSE adapters
       /\ last' = [op |-> "create_adapter", provider |-> provider, kwargs |-> kw,
                   ret |-> c]
    /\ listed' = Nil
    /\ UNCHANGED <<facVars, retryVars, active, request, orig_request, validations,
                   net_calls, sent, capabilities, vendor_reply, translation, secrets, environ,
                   api_keys, azure_endpoint, custom_providers>>

(***************************************************************************)
(* APIKeyManager                                                           *)
(***************************************************************************)
SESSION == "session"
SECRETS == "secrets"
ENV == "environment"
NOT_SET == "not_set"

SingleKeyProviders ==
    {"openai", "anthropic", "gemini", "cohere", "openrouter", "groq", "huggingface"}

\* PROVIDER_KEY_MAP.get(provider) for the single-key providers; None: no entry
\* (the entry of 'azure' is the list of its two names, used by name below)
KeyName(provider) ==
    CASE provider = "openai" -> "OPENAI_API_KEY"
      [] provider = "anthropic" -> "ANTHROPIC_API_KEY"
      [] provider = "gemini" -> "GEMINI_API_KEY"
      [] provider = "cohere" -> "COHERE_API_KEY"
      [] provider = "openrouter" -> "OPENROUTER_API_KEY"
      [] provider = "groq" -> "GROQ_API_KEY"
      [] provider = "huggingface" -> "HUGGINGFACE_API_KEY"
      [] OTHER -> None

\* os.getenv(name)
GetEnv(env, name) == IF name \in DOMAIN env THEN env[name] ELSE None

Resolved(key, endpoint, source) == [key |-> key, endpoint |-> endpoint, source |-> source]
Unresolved == Resolved(None, None, NOT_SET)

\* `provider in st.session_state.api_keys and st.session_state.api_keys[provider]`
SessionHas(keys, provider) == provider \in DOMAIN keys /\ ~Falsy(keys[provider])

AzureCredentials_PerPart(keys, ep, sec, env) ==
    LET key == IF SessionHas(keys, "azure") THEN keys["azure"]
               ELSE IF "AZURE_OPENAI_KEY" \in DOMAIN sec THEN sec["AZURE_OPENAI_KEY"]
               ELSE GetEnv(env, "AZURE_OPENAI_KEY")
        url == IF ~Falsy(ep) THEN ep
               ELSE IF "AZURE_OPENAI_ENDPOINT" \in DOMAIN sec
               THEN sec["AZURE_OPENAI_ENDPOINT"]
               ELSE GetEnv(env, "AZURE_OPENAI_ENDPOINT")
    IN IF Falsy(key) \/ Falsy(url) THEN Unresolved
       ELSE Resolved(key, url, IF SessionHas(keys, "azure") THEN SESSION
                               ELSE IF "AZURE_OPENAI_KEY" \in DOMAIN sec THEN SECRETS
                               ELSE ENV)

\* APIKeyManager._get_azure_credentials; the returned dict is the pair
\* (key, endpoint) of the record
AzureCredentials(keys, ep, sec, env) ==
    IF SessionHas(keys, "azure") /\ ~Falsy(ep)
    THEN Resolved(keys["azure"], ep, SESSION)
    ELSE IF "AZURE_OPENAI_KEY" \in DOMAIN sec /\ "AZURE_OPENAI_ENDPOINT" \in DOMAIN sec
    THEN Resolved(sec["AZURE_OPENAI_KEY"], sec["AZURE_OPENAI_ENDPOINT"], SECRETS)
    ELSE IF ~Falsy(GetEnv(env, "AZURE_OPENAI_KEY"))
            /\ ~Falsy(GetEnv(env, "AZURE_OPENAI_ENDPOINT"))
    THEN Resolved(GetEnv(env, "AZURE_OPENAI_KEY"), GetEnv(env, "AZURE_OPENAI_ENDPOINT"), ENV)
    ELSE Unresolved

SingleKey_EnvFirst(provider, keys, sec, env) ==
    LET name == KeyName(provider) IN
    IF ~Falsy(GetEnv(env, name)) THEN Resolved(GetEnv(env, name), None, ENV)
    ELSE IF SessionHas(keys, provider) THEN Resolved(keys[provider], None, SESSION)
    ELSE IF name \in DOMAIN sec THEN Resolved(sec[name], None, SECRETS)
    ELSE Unresolved

\* get_api_key below the PROVIDER_KEY_MAP lookup: session, then secrets, then
\* the environment
SingleKey(provider, keys, sec, env) ==
    LET name == KeyName(provider) IN
    IF SessionHas(keys, provider) THEN Resolved(keys[provider], None, SESSION)
    ELSE IF name \in DOMAIN sec THEN Resolved(sec[name], None, SECRETS)
    ELSE IF ~Falsy(GetEnv(env, name)) THEN Resolved(GetEnv(env, name), None, ENV)
    ELSE Unresolved

\* APIKeyManager.get_api_key(provider)
get_api_key(provider, keys, ep, sec, env) ==
    IF provider = "azure" THEN AzureCredentials(keys, ep, sec, env)
    ELSE IF KeyName(provider) = None THEN Unresolved
    ELSE SingleKey(provider, keys, sec, env)

\* str.strip() on the texts drawn here: a core between blanks
Blanks == {"", " "}
Cores == {"", "k1", "k2", "https://az.example"}
Padded == {l \o c \o r : l \in Blanks, c \in Cores, r \in Blanks}
StripTable ==
    [s \in Padded |->
        CHOOSE c \in Cores : \E l \in Blanks, r \in Blanks : l \o c \o r = s]
Strip_Identity(s) == s
Strip(s) == StripTable[s]

\* f with f[k] = v, k added when new: `d[k] = v`
Put(f, k, v) == [x \in DOMAIN f \cup {k} |-> IF x = k THEN v ELSE f[x]]
\* `del d[k]`
Del(f, k) == [x \in DOMAIN f \ {k} |-> f[x]]

\* name.lower() and the two replace calls, character by character
Lower(c) ==
    CASE c = "L" -> "l"
      [] c = "M" -> "m"
      [] OTHER -> c
Underscore(c) == IF c \in {" ", "-"} THEN "_" ELSE c
RECURSIVE Text(_)
Text(chars) == IF chars = <<>> THEN "" ELSE Head(chars) \o Text(Tail(chars))
Sanitized(name) == [i \in 1..Len(name) |-> Underscore(Lower(name[i]))]

\* f"custom_{name.lower().replace(' ', '_').replace('-', '_')}"
ProviderId(name) == "custom_" \o Text(Sanitized(name))

\* display names a user may type, as character sequences
Names ==
    {<<"L", "o", "c", "a", "l">>,
     <<"M", "y", "-", "L", "L", "M">>,
     <<"m", "y", " ", "l", "l", "m">>}

CustomIds == {ProviderId(n) : n \in Names}

\* provider.startswith('custom_') on the provider ids drawn here
StartsWithCustom(provider) == provider \in CustomIds

\* APIKeyManager.get_custom_provider_config(provider_id); Nil: {}
CustomConfig(customs, id) == IF id \in DOMAIN customs THEN customs[id] ELSE Nil

\* APIKeyManager.set_api_key(provider, api_key, endpoint)
SetApiKey(provider, key, endpoint) ==
    /\ wpc = "idle"
    /\ IF ~Falsy(key) /\ ~Falsy(Strip(key))
       THEN /\ api_keys' = Put(api_keys, provider, Strip(key))
            /\ azure_endpoint' = IF provider = "azure" /\ ~Falsy(endpoint)
                                 THEN Strip(endpoint) ELSE azure_endpoint
       ELSE UNCHANGED <<api_keys, azure_endpoint>>
    /\ last' = Nil
    /\ UNCHANGED <<facVars, retryVars, genVars, secrets, environ, custom_providers>>

\* APIKeyManager.clear_api_key(provider)
ClearApiKey(provider) ==
    /\ wpc = "idle"
    /\ api_keys' = Del(api_keys, provider)
    /\ azure_endpoint' = IF provider = "azure" THEN "" ELSE azure_endpoint
    /\ last' = Nil
    /\ UNCHANGED <<facVars, retryVars, genVars, secrets, environ, custom_providers>>

\* APIKeyManager.add_custom_provider(name, base_url, api_key, default_model)
AddCustomProvider(name, base_url, key, model) ==
    /\ wpc = "idle"
    /\ custom_providers' =
          Put(custom_providers, ProviderId(name),
              [name |-> Text(name), base_url |-> base_url, default_model |-> model])
    /\ api_keys' = Put(api_keys, ProviderId(name), key)
    /\ last' = [op |-> "add_custom_provider", id |-> ProviderId(name)]
    /\ UNCHANGED <<facVars, retryVars, genVars, secrets, environ, azure_endpoint>>

RemoveCustomProvider_KeepsKey(id) ==
    /\ wpc = "idle"
    /\ custom_providers' = Del(custom_providers, id)
    /\ last' = Nil
    /\ UNCHANGED <<facVars, retryVars, genVars, secrets, environ, azure_endpoint, api_keys>>

\* APIKeyManager.remove_custom_provider(provider_id)
RemoveCustomProvider(id) ==
    /\ wpc = "idle"
    /\ custom_providers' = Del(custom_providers, id)
    /\ api_keys' = Del(api_keys, id)
    /\ last' = Nil
    /\ UNCHANGED <<facVars, retryVars, genVars, secrets, environ, azure_endpoint>>

\* a caller reads APIKeyManager.get_api_key(provider)
GetApiKey(provider) ==
    /\ wpc = "idle"
    /\ last' = [op |-> "get_api_key", provider |-> provider,
                ret |-> get_api_key(provider, api_keys, azure_endpoint, secrets, environ)]
    /\ UNCHANGED <<facVars, retryVars, genVars, secrets, environ, api_keys, azure_endpoint,
                   custom_providers>>

\* the keys of PROVIDER_KEY_MAP in the order of the dict literal
ProviderKeyMapKeys ==
    <<"openai", "anthropic", "gemini", "cohere", "openrouter", "groq", "huggingface",
      "azure">>

\* APIKeyManager._mask_key(key)
Mask(key) ==
    IF Falsy(key) \/ Len(key) < 8 THEN "***"
    ELSE SubSeq(key, 1, 4) \o "..." \o SubSeq(key, Len(key) - 3, Len(key))

\* APIKeyManager.get_all_configured_providers(): the providers of
\* PROVIDER_KEY_MAP with a truthy key and a source other than NOT_SET (the
\* Azure dict is truthy), in the order of the dict
get_all_configured_providers(keys, ep, sec, env) ==
    LET Configured(p) ==
            LET got == get_api_key(p, keys, ep, sec, env) IN
            got.source # NOT_SET /\ (p = "azure" \/ ~Falsy(got.key))
    IN SelectSeq(ProviderKeyMapKeys, Configured)

\* one line of the exported text
Comment(text) == [kind |-> "comment", text |-> text]
Blank == [kind |-> "blank"]
Assignment(name, value) == [kind |-> "assignment", name |-> name, value |-> value]

ExportHeader ==
    <<Comment("# API Keys Configuration"), Comment("# Generated by MedDiag Gemini 3"),
      Blank, Comment("# ===== LLM Provider API Keys ====="), Blank>>

\* the lines export_to_env_format appends for one configured provider
ExportLines(p, got) ==
    IF p = "azure"
    THEN <<Assignment("AZURE_OPENAI_KEY", got.key),
           Assignment("AZURE_OPENAI_ENDPOINT", got.endpoint)>>
    ELSE <<Assignment(KeyName(p), got.key)>>

RECURSIVE Flatten(_)
Flatten(qq) == IF qq = <<>> THEN <<>> ELSE Head(qq) \o Flatten(Tail(qq))

export_to_env_format_AnySource(keys, ep, sec, env) ==
    LET configured == get_all_configured_providers(keys, ep, sec, env)
    IN ExportHeader
       \o Flatten([i \in 1..Len(configured) |->
                      ExportLines(configured[i],
                                  get_api_key(configured[i], keys, ep, sec, env))])

\* APIKeyManager.export_to_env_format(): the text as its sequence of lines
export_to_env_format(keys, ep, sec, env) ==
    LET configured == get_all_configured_providers(keys, ep, sec, env)
        FromSession(p) == get_api_key(p, keys, ep, sec, env).source = SESSION
        exported == SelectSeq(configured, FromSession)
    IN ExportHeader
       \o Flatten([i \in 1..Len(exported) |->
                      ExportLines(exported[i],
                                  get_api_key(exported[i], keys, ep, sec, env))])

\* a caller runs APIKeyManager.export_to_env_format()
ExportToEnvFormat ==
    /\ wpc = "idle"
    /\ last' = [op |-> "export_to_env_format",
                ret |-> export_to_env_format(api_keys, azure_endpoint, secrets, environ)]
    /\ UNCHANGED <<facVars, retryVars, genVars, secrets, environ, api_keys, azure_endpoint,
                   custom_providers>>

(***************************************************************************)
(* create_llm_adapter (utils/llm_helpers.py)                               *)
(***************************************************************************)
\* the custom branch: configuration, then the key, then CustomLLMAdapter(...)
CreateCustom(provider, key, customs, keys, ep, sec, env, genai) ==
    LET cfg == CustomConfig(customs, provider)
        got == get_api_key(provider, keys, ep, sec, env)
    IN IF cfg = Nil
       THEN ConstructFailed("ValueError", "custom_provider_not_found", genai)
       ELSE IF Falsy(key) /\ Falsy(got.key)
       THEN ConstructFailed("ValueError", "no_api_key", genai)
       ELSE Construct("custom", IF Falsy(key) THEN got.key ELSE key,
                      Kwargs(None, cfg.base_url, cfg.default_model, cfg.name), genai)

CreateBuiltin_KeyUnchecked(provider, key, kw, keys, ep, sec, env, genai, reg) ==
    LET got == get_api_key(provider, keys, ep, sec, env)
        usekey == IF Falsy(key) THEN got.key ELSE key
        usekw == IF Falsy(key) /\ provider = "azure" /\ kw.endpoint = None
                 THEN [kw EXCEPT !.endpoint = got.endpoint] ELSE kw
    IN IF provider \notin BuiltinClasses
       THEN ConstructFailed("ValueError", "unknown_provider", genai)
       ELSE create_adapter(reg, provider, usekey, usekw, genai)

\* the built-in branch: the key from the manager when none is passed, the
\* provider_map lookup, then LLMAdapterFactory.create_adapter
CreateBuiltin(provider, key, kw, keys, ep, sec, env, genai, reg) ==
    LET got == get_api_key(provider, keys, ep, sec, env)
        \* for Azure key_data is the (non-empty) dict whenever a source is reported
        nokey == IF provider = "azure" THEN got.source = NOT_SET ELSE Falsy(got.key)
        usekey == IF Falsy(key) THEN got.key ELSE key
        usekw == IF Falsy(key) /\ provider = "azure" /\ kw.endpoint = None
                 THEN [kw EXCEPT !.endpoint = got.endpoint] ELSE kw
    IN IF Falsy(key) /\ nokey
       THEN ConstructFailed("ValueError", "no_api_key", genai)
       ELSE IF provider \notin BuiltinClasses
       THEN ConstructFailed("ValueError", "unknown_provider", genai)
       ELSE create_adapter(reg, provider, usekey, usekw, genai)

\* create_llm_adapter(provider, api_key, **kwargs) with a lower-case provider
create_llm_adapter(provider, key, kw, customs, keys, ep, sec, env, genai, reg) ==
    IF StartsWithCustom(provider)
    THEN CreateCustom(provider, key, customs, keys, ep, sec, env, genai)
    ELSE CreateBuiltin(provider, key, kw, keys, ep, sec, env, genai, reg)

\* a caller runs create_llm_adapter and holds what it returned or raised
CreateLLMAdapter(provider, key, kw) ==
    /\ wpc = "idle"
    /\ LET c == create_llm_adapter(provider, key, kw, custom_providers, api_keys,
                                   azure_endpoint, secrets, environ, genai_api_key,
                                   factory_adapters)
       IN /\ genai_api_key' = c.genai
          /\ last' = [op |-> "create_llm_adapter", provider |-> provider,
                      api_key |-> key, ret |-> c]
    /\ UNCHANGED <<facVars, retryVars, adapters, active, request, orig_request, validations,
                   net_calls, sent, capabilities, vendor_reply, translation, listed,
                   secrets, environ, api_keys, azure_endpoint, custom_providers>>

(***************************************************************************)
(* get_available_providers_info (utils/llm_helpers.py)                     *)
(***************************************************************************)
\* the attributes class LLMConfig defines (config/llm_config.py)
LLMConfigAttributes ==
    {"PROVIDERS", "get_available_providers", "get_provider_config",
     "get_default_provider", "MODEL_CAPABILITIES"}

\* the two loops: a supported provider is listed when get_api_key gives a
\* truthy key (Azure: a dict with truthy key and endpoint), a custom provider
\* when get_api_key gives a truthy key for its id
AvailableProviders(supported, customs, keys, ep, sec, env) ==
    {p \in supported :
        LET got == get_api_key(p, keys, ep, sec, env) IN
        IF p = "azure"
        THEN got.source # NOT_SET /\ ~Falsy(got.key) /\ ~Falsy(got.endpoint)
        ELSE ~Falsy(got.key)}
    \cup {id \in DOMAIN customs : ~Falsy(get_api_key(id, keys, ep, sec, env).key)}

\* get_available_providers_info(): its first statement reads
\* LLMConfig.get_supported_providers
get_available_providers_info(customs, keys, ep, sec, env) ==
    IF "get_supported_providers" \notin LLMConfigAttributes
    THEN Raised("AttributeError", "LLMConfig.get_supported_providers")
    ELSE Returned(AvailableProviders(BuiltinClasses, customs, keys, ep, sec, env))

\* a caller runs get_available_providers_info()
GetAvailableProvidersInfo ==
    /\ wpc = "idle"
    /\ last' = [op |-> "get_available_providers_info",
                ret |-> get_available_providers_info(custom_providers, api_keys,
                                                     azure_endpoint, secrets, environ)]
    /\ UNCHANGED <<facVars, retryVars, genVars, secrets, environ, api_keys, azure_endpoint,
                   custom_providers>>

(***************************************************************************)
(* Inputs drawn by the specifications                                      *)
(***************************************************************************)
Keys == {"k1", "k2"}
SeqSet(s) == {s[i] : i \in 1..Len(s)}

\* model identifiers a caller may put in a request to an instance
RequestModels(a) ==
    {None, "unknown-model", a.default_model}
    \cup (IF a.cls = "custom" THEN {} ELSE SeqSet(AvailableModels(a.cls)))
    \cup (IF a.cls = "openrouter" THEN {"openai/gpt-4o:nitro"} ELSE {})

RequestMaxTokens == {4096, 5000, 40000}

Requests(a) ==
    {Request(m, n, t) : m \in RequestModels(a), n \in 0..MaxImages, t \in RequestMaxTokens}

LocalKwargs == Kwargs(None, "http://localhost:1234/v1", "local-model", "Local")
AzureKwargs == Kwargs("https://az.example", None, None, None)
EmptyEndpointKwargs == Kwargs("", None, None, None)

\* one instance of any adapter class, constructed
InitGen ==
    \E cls \in Classes :
        LET kw == IF cls = "custom" THEN LocalKwargs
                  ELSE IF cls = "azure" THEN AzureKwargs ELSE NoKwargs
            c == Construct(cls, "k1", kw, None)
        IN /\ adapters = <<c.adapter>>
           /\ genai_api_key = c.genai
           /\ active = 0
           /\ request = Nil
           /\ orig_request = Nil
           /\ validations = 0
           /\ net_calls = 0
           /\ sent = Nil
           /\ capabilities = Nil
           /\ listed = Nil
           /\ vendor_reply = Nil
           /\ translation = 0

(***************************************************************************)
(* The bare wrapper around an arbitrary callable                           *)
(***************************************************************************)
\* wrapped = retry_with_exponential_backoff(func, max_retries=n, jitter=jit); wrapped()
CallWrapped(n, jit) ==
    /\ WrapperEnter(n, jit)
    /\ UNCHANGED <<facVars, genVars, keyVars>>

\* func(*args, **kwargs) is invoked and returns or raises
InvokeFunc(o) ==
    /\ active = 0
    /\ WrapperStep(o)
    /\ UNCHANGED <<facVars, genVars, keyVars>>

ReturnToCaller ==
    /\ active = 0
    /\ WrapperLeave
    /\ UNCHANGED <<facVars, genVars, keyVars>>

NextRetry ==
    \/ \E n \in -1..MaxRetries, jit \in BOOLEAN : CallWrapped(n, jit)
    \/ \E o \in FuncOutcomes : InvokeFunc(o)
    \/ ReturnToCaller

InitRetrySpec == InitRetry /\ InitGenIdle /\ InitKeysIdle /\ InitFactory

SpecRetry == InitRetrySpec /\ [][NextRetry]_vars

NextGen ==
    \/ \E i \in 1..Len(adapters) : \E req \in Requests(adapters[i]) : GenerateCall(i, req)
    \/ \E reply \in VendorReplies : GenerateAttempt(reply)
    \/ GenerateReturn
    \/ \E i \in 1..Len(adapters), listing \in EndpointListings : GetAvailableModels(i, listing)

InitGenSpec == InitRetry /\ InitGen /\ InitKeysIdle /\ InitFactory

\* one adapter instance of any class serving generate and model-listing calls
SpecGen == InitGenSpec /\ [][NextGen]_vars

ShareClasses == {"openai", "gemini", "azure"}
ShareRequests == {Request(None, 0, 4000)}
ShareReplies ==
    {VendorOk(Short, Usage(10, 5), 0),
     [ok |-> FALSE, type |-> "vendor.AuthenticationError"]}

NextShare ==
    \/ \E cls \in ShareClasses, key \in Keys,
          kw \in {NoKwargs, AzureKwargs, EmptyEndpointKwargs} : CreateAdapter(cls, key, kw)
    \/ \E i \in 1..Len(adapters), req \in ShareRequests : GenerateCall(i, req)
    \/ \E reply \in ShareReplies : GenerateAttempt(reply)
    \/ GenerateReturn

InitShareSpec == InitRetry /\ InitGenIdle /\ InitKeysIdle /\ InitFactory

\* several adapter instances created through the factory and used in turn
SpecShare == InitShareSpec /\ [][NextShare]_vars

\* what a secret store or the process environment may hold for the given key
\* names: nothing, an empty text, or a value
TierStores(names, tag) ==
    UNION {{f \in [d -> {"", tag \o "-key", tag \o "-url"}] :
               \A n \in d : f[n] \in {"", IF n = "AZURE_OPENAI_ENDPOINT"
                                         THEN tag \o "-url" ELSE tag \o "-key"}} :
           d \in SUBSET names}

KeyProviders == {"openai", "azure"}
KeyInputs == {"", " ", "k1", " k1 ", "k2"}
EndpointInputs == {None, " ", "https://az.example"}

\* an idle session; the secret store and the environment hold the key names
\* of one provider
InitKeys ==
    /\ \E names \in {{"OPENAI_API_KEY"}, {"AZURE_OPENAI_KEY", "AZURE_OPENAI_ENDPOINT"}} :
          /\ secrets \in TierStores(names, "sec")
          /\ environ \in TierStores(names, "env")
    /\ api_keys = <<>>
    /\ azure_endpoint = ""
    /\ custom_providers = <<>>
    /\ last = Nil

NextKeys ==
    \/ \E p \in KeyProviders, k \in KeyInputs, e \in EndpointInputs : SetApiKey(p, k, e)
    \/ \E p \in KeyProviders : ClearApiKey(p)
    \/ \E p \in KeyProviders \cup {"cohere", "mistral"} : GetApiKey(p)
    \/ \E p \in {"openai", "azure", "mistral"}, k \in {None, "k1"},
          kw \in {NoKwargs, AzureKwargs} : CreateLLMAdapter(p, k, kw)
    \/ GetAvailableProvidersInfo
    \/ ExportToEnvFormat

InitKeysSpec == InitRetry /\ InitGenIdle /\ InitKeys /\ InitFactory

\* credential resolution for the built-in providers over the three tiers
SpecKeys == InitKeysSpec /\ [][NextKeys]_vars

\* the caller lists the models of the instance create_llm_adapter returned
ListCreated(listing) ==
    /\ wpc = "idle"
    /\ last # Nil
    /\ last.op = "create_llm_adapter"
    /\ last.ret.ok
    /\ listed' = [adapter |-> last.ret.adapter,
                  ret |-> get_available_models(last.ret.adapter, listing)]
    /\ UNCHANGED <<facVars, retryVars, adapters, genai_api_key, active, request, orig_request,
                   validations, net_calls, sent, capabilities, vendor_reply, translation,
                   keyVars>>

CustomKeyInputs == {"", "ck1", "ck2"}

NextCustom ==
    \/ \E n \in Names, k \in CustomKeyInputs, m \in {"local-model", "gpt-4o"} :
          AddCustomProvider(n, "http://localhost:1234/v1", k, m)
    \/ \E id \in CustomIds : RemoveCustomProvider(id)
    \/ \E id \in CustomIds : ClearApiKey(id)
    \/ \E id \in CustomIds : GetApiKey(id)
    \/ \E id \in CustomIds, k \in {None, "k1"} : CreateLLMAdapter(id, k, NoKwargs)
    \/ \E listing \in EndpointListings : ListCreated(listing)

InitCustomSpec == InitRetry /\ InitGenIdle /\ InitKeysIdle /\ InitFactory

\* custom providers: configured, resolved, created and listed in one session
SpecCustom == InitCustomSpec /\ [][NextCustom]_vars

\* ids handed to remove_custom_provider: those add_custom_provider can give
\* and one it never gave
RemoveIds == CustomIds \cup {"custom_other"}

NextAddRemove ==
    \/ \E n \in Names, k \in CustomKeyInputs, m \in {"local-model", "gpt-4o"},
          url \in {"http://localhost:1234/v1", "https://llm.example/v1"} :
          AddCustomProvider(n, url, k, m)
    \/ \E id \in RemoveIds : RemoveCustomProvider(id)

InitAddRemoveSpec == InitRetry /\ InitGenIdle /\ InitKeysIdle /\ InitFactory

\* custom providers added and removed in a session that starts empty
SpecAddRemove == InitAddRemoveSpec /\ [][NextAddRemove]_vars

\* a caller asks a live instance for the cost of a token usage
CalculateCost(i, input_tokens, output_tokens, model) ==
    /\ wpc = "idle"
    /\ i \in 1..Len(adapters)
    /\ last' = [op |-> "calculate_cost", adapter |-> adapters[i],
                input_tokens |-> input_tokens, output_tokens |-> output_tokens,
                model |-> model,
                ret |-> calculate_cost(adapters[i].cls, input_tokens, output_tokens,
                                       model)]
    /\ UNCHANGED <<facVars, retryVars, genVars, secrets, environ, api_keys,
                   azure_endpoint, custom_providers>>

TokenInputs == {0, 10, 1000, 1500}

NextCost ==
    \E i \in 1..Len(adapters) :
        \E m \in RequestModels(adapters[i]) \ {None}, n \in TokenInputs, k \in TokenInputs :
            CalculateCost(i, n, k, m)

InitCostSpec == InitRetry /\ InitGen /\ InitKeysIdle /\ InitFactory

\* calculate_cost on one instance of any class
SpecCost == InitCostSpec /\ [][NextCost]_vars

FactoryProviders == {"openai", "azure"}
FactoryClasses == {"openai", "azure", "custom"}

NextFactory ==
    \/ \E p \in FactoryProviders, cls \in FactoryClasses : RegisterAdapter(p, cls)
    \/ \E p \in FactoryProviders \cup {"groq"}, kw \in {NoKwargs, AzureKwargs} :
          CreateAdapter(p, "k1", kw)

InitFactorySpec == InitRetry /\ InitGenIdle /\ InitKeysIdle /\ InitFactoryEmpty

\* the factory alone: classes registered by the caller, instances created
SpecFactory == InitFactorySpec /\ [][NextFactory]_vars

(***************************************************************************)
(* Claims                                                                  *)
(***************************************************************************)
AllRaised(s) == \A i \in 1..Len(s) : ~s[i].ok

\* C1: with max_retries = n >= 1 the wrapper returns the value of the first
\* successful invocation, having invoked the callable once more than it
\* failed (k failures, k < n, then success: k+1 invocations), and when every
\* invocation raises it raises the last exception after exactly n invocations;
\* it never stops earlier and never invokes the callable more than n times.
C1_RetryCounts ==
    max_retries >= 1 =>
        LET k == Len(invocations) IN
        /\ k <= max_retries
        /\ wpc = "running" => AllRaised(invocations) /\ k < max_retries
        /\ wpc = "returned" =>
              /\ k >= 1
              /\ AllRaised(SubSeq(invocations, 1, k - 1))
              /\ invocations[k].ok
              /\ result = invocations[k]
        /\ wpc = "raised" =>
              /\ k = max_retries
              /\ AllRaised(invocations)
              /\ result = invocations[k]

\* fail, fail, succeed under max_retries = 3: three invocations and the value
C1_Witness ==
    /\ wpc = "returned"
    /\ max_retries = 3
    /\ Len(invocations) = 3
    /\ ~invocations[1].ok /\ ~invocations[2].ok
    /\ result = Returned("v1")

\* the generate call in progress, as the caller made it
Caller == adapters[active]
AskedModel == ResolveModel(orig_request, Caller)
AskedCaps == get_model_capabilities(Caller.cls, AskedModel)
ValidationErrors ==
    {k \in 1..Len(invocations) :
        ~invocations[k].ok /\ invocations[k].why = "unsupported_modality"}

\* C2: a validation failure of generate (images for a model without vision)
\* reaches the caller after a single validate_request, with no network call
\* and no backoff sleep before it.
C2_ValidationRaisedOnce ==
    (active # 0 /\ wpc = "raised" /\ result = UnsupportedModality) =>
        /\ validations = 1
        /\ net_calls = 0
        /\ slept = <<>>

\* C3: a request with images whose resolved model has supports_vision = false
\* never reaches the vendor and ends in the unsupported-modality error, on
\* every adapter; Cohere and Hugging Face reject images for every model.
C3_ImagesWithoutVisionRejected ==
    (active # 0 /\ orig_request.images > 0
     /\ (~AskedCaps.supports_vision \/ Caller.cls \in {"cohere", "huggingface"})) =>
        /\ net_calls = 0
        /\ sent = Nil
        /\ wpc # "returned"
        /\ \A k \in 1..Len(invocations) : invocations[k] = UnsupportedModality
        /\ wpc = "raised" => result = UnsupportedModality

C3_Witness ==
    /\ active # 0
    /\ wpc = "raised"
    /\ Caller.cls = "openai"
    /\ orig_request.model = "gpt-4"
    /\ orig_request.images = 1
    /\ result = UnsupportedModality
    /\ net_calls = 0

\* C4: max_tokens above the resolved model's ceiling is no error: validation
\* fails only for images without vision, every other attempt issues the vendor
\* call, and that call carries the ceiling when the request asked for more and
\* the requested value otherwise.
C4_MaxTokensClamped ==
    active # 0 =>
        LET ceiling == AskedCaps.max_tokens IN
        /\ ValidationErrors # {} => (orig_request.images > 0 /\ ~AskedCaps.supports_vision)
        /\ (orig_request.images = 0) => net_calls = validations
        /\ net_calls > 0 =>
              sent.max_tokens = IF orig_request.max_tokens > ceiling
                                THEN ceiling ELSE orig_request.max_tokens

C4_Witness ==
    /\ active # 0
    /\ wpc = "returned"
    /\ Caller.cls = "openai"
    /\ orig_request = Request("gpt-4o-mini", 0, 40000)
    /\ sent.max_tokens = 16384
    /\ validations = 1

\* the generate call validated a model its adapter keeps no table entry for
UnknownModelLookedUp ==
    /\ active # 0
    /\ validations > 0
    /\ AskedModel \notin CapabilityTable(Caller.cls)

NoVisionNoStreaming4096Free(c) ==
    /\ c.supports_vision = FALSE
    /\ c.supports_streaming = FALSE
    /\ c.max_tokens = 4096
    /\ c.cost_per_1k_input_tokens = 0
    /\ c.cost_per_1k_output_tokens = 0

\* C7 as claimed: on every adapter the lookup of a model outside the
\* provider's table returns the default descriptor (no vision, no streaming,
\* 4096 max tokens, both costs 0).
C7_UnknownModelIsDefault ==
    UnknownModelLookedUp => NoVisionNoStreaming4096Free(capabilities)

\* C7 as amended: the lookup is total and an unknown model is free on every
\* adapter; it is the default descriptor on OpenAI, Anthropic, Gemini, Cohere
\* and Azure; Groq falls back to streaming with 8192 max tokens and no vision;
\* OpenRouter, Hugging Face and the custom adapter keep no table and answer
\* every model with streaming on: OpenRouter with 8192 max tokens, Hugging
\* Face with 4096 and no vision, the custom adapter with 4096 and vision.
C7_UnknownModelFallback ==
    /\ (active # 0 /\ validations > 0) => capabilities.max_tokens > 0
    /\ UnknownModelLookedUp =>
        /\ capabilities.cost_per_1k_input_tokens = 0
        /\ capabilities.cost_per_1k_output_tokens = 0
        /\ Caller.cls \in {"openai", "anthropic", "gemini", "cohere", "azure"} =>
              capabilities = DefaultCaps
        /\ Caller.cls = "groq" =>
              /\ ~capabilities.supports_vision
              /\ capabilities.supports_streaming
              /\ capabilities.max_tokens = 8192
        /\ Caller.cls = "openrouter" =>
              /\ capabilities.supports_streaming
              /\ capabilities.max_tokens = 8192
        /\ Caller.cls = "huggingface" =>
              /\ ~capabilities.supports_vision
              /\ capabilities.supports_streaming
              /\ capabilities.max_tokens = 4096
        /\ Caller.cls = "custom" =>
              /\ capabilities.supports_vision
              /\ capabilities.supports_streaming
              /\ capabilities.max_tokens = 4096

C7_Witness ==
    /\ UnknownModelLookedUp
    /\ Caller.cls = "groq"
    /\ orig_request.model = "unknown-model"
    /\ capabilities.max_tokens = 8192
    /\ capabilities.supports_streaming

\* C9: every vendor call an instance issues carries the credential that
\* instance was constructed with, whatever other instances were constructed
\* or used since.
C9_CallsUseOwnCredential ==
    (active # 0 /\ net_calls > 0) => sent.api_key = Caller.api_key

\* C10 as claimed: listing the models of any adapter, the custom one
\* included, issues no network call.
C10_ListingIsStatic ==
    listed # Nil => listed.ret.net_calls = 0

\* C10 as amended: the eight built-in adapters list their models without a
\* network call and always return their fixed literal list; the custom adapter
\* asks its endpoint on every call and returns what the endpoint lists, or
\* [default_model] when that call fails.
C10_BuiltinListingIsStatic ==
    listed # Nil =>
        IF listed.adapter.cls \in BuiltinClasses
        THEN /\ listed.ret.net_calls = 0
             /\ listed.ret.models = AvailableModels(listed.adapter.cls)
        ELSE /\ listed.ret.net_calls = 1
             /\ \/ listed.ret.models = <<listed.adapter.default_model>>
                \/ Listing(listed.ret.models) \in EndpointListings

C10_Witness ==
    /\ listed # Nil
    /\ listed.adapter.cls = "openrouter"
    /\ listed.ret.net_calls = 0
    /\ Len(listed.ret.models) = 13

\* what get_api_key last returned for a provider, the session, the secret
\* store and the environment being what they were at the call
Asked(provider) ==
    /\ last # Nil
    /\ last.op = "get_api_key"
    /\ last.provider = provider

InSession(provider) == provider \in DOMAIN api_keys /\ api_keys[provider] # ""
Holds(store, name) == name \in DOMAIN store /\ store[name] # ""

\* C5: for a single-key provider the session value wins over the stored
\* secret, which wins over the environment value, and the reported source is
\* the tier the value came from; with no value in any tier the answer is
\* (None, NOT_SET).
C5_SessionSecretsEnvironment ==
    \A p \in SingleKeyProviders :
        Asked(p) =>
            LET n == KeyName(p) IN
            /\ InSession(p) => last.ret = Resolved(api_keys[p], None, SESSION)
            /\ (~InSession(p) /\ Holds(secrets, n)) =>
                  last.ret = Resolved(secrets[n], None, SECRETS)
            /\ (~InSession(p) /\ n \notin DOMAIN secrets /\ Holds(environ, n)) =>
                  last.ret = Resolved(environ[n], None, ENV)
            /\ (~InSession(p) /\ n \notin DOMAIN secrets /\ ~Holds(environ, n)) =>
                  last.ret = Unresolved

\* session and environment both set: the session value, source = session
C5_Witness ==
    /\ Asked("openai")
    /\ InSession("openai")
    /\ Holds(environ, "OPENAI_API_KEY")
    /\ "OPENAI_API_KEY" \notin DOMAIN secrets
    /\ last.ret = Resolved("k1", None, SESSION)

\* C6: an Azure credential is reported only from a tier that holds both the
\* key and the endpoint, and both returned parts are that tier's; when no
\* tier holds both (a session key with an environment endpoint), the answer
\* is (None, NOT_SET).
C6_AzureSameTier ==
    Asked("azure") =>
        LET r == last.ret
            K == "AZURE_OPENAI_KEY"
            E == "AZURE_OPENAI_ENDPOINT"
            session == InSession("azure") /\ azure_endpoint # ""
            stored == K \in DOMAIN secrets /\ E \in DOMAIN secrets
            env == Holds(environ, K) /\ Holds(environ, E)
        IN /\ r.source = SESSION =>
                 session /\ r.key = api_keys["azure"] /\ r.endpoint = azure_endpoint
           /\ r.source = SECRETS =>
                 stored /\ r.key = secrets[K] /\ r.endpoint = secrets[E]
           /\ r.source = ENV => env /\ r.key = environ[K] /\ r.endpoint = environ[E]
           /\ (~session /\ ~stored /\ ~env) <=> r = Unresolved

\* the key only in the session, the endpoint only in the environment
C6_Witness ==
    /\ Asked("azure")
    /\ InSession("azure")
    /\ azure_endpoint = ""
    /\ secrets = <<>>
    /\ DOMAIN environ = {"AZURE_OPENAI_ENDPOINT"}
    /\ environ["AZURE_OPENAI_ENDPOINT"] = "env-url"
    /\ last.ret = Unresolved

\* C8: with the custom provider "Local" registered (base URL
\* http://localhost:1234/v1, default model local-model, a non-empty API key),
\* create_llm_adapter("custom_local") without further arguments returns an
\* adapter.
C8_CreateRegisteredCustom ==
    (/\ last # Nil
     /\ last.op = "create_llm_adapter"
     /\ last.provider = "custom_local"
     /\ last.api_key = None
     /\ "custom_local" \in DOMAIN custom_providers
     /\ custom_providers["custom_local"] =
           [name |-> "Local", base_url |-> "http://localhost:1234/v1",
            default_model |-> "local-model"]
     /\ InSession("custom_local"))
    => last.ret.ok

\* the error kinds generate is to surface
Taxonomy ==
    {"AuthenticationError", "ModelNotFound", "UnsupportedModality", "RateLimited",
     "NetworkError", "VendorError"}

\* C11: every exception generate hands to its caller is of one of the shared
\* taxonomy kinds; no vendor SDK exception class reaches the caller.
C11_OnlyTaxonomyErrors ==
    (active # 0 /\ wpc = "raised") =>
        /\ result.type \in Taxonomy
        /\ result.type \notin VendorExceptions

\* the class of the last register_adapter call made for the provider type
Registered(provider) == {k \in 1..Len(registrations) : registrations[k][1] = provider}
LastRegistered(provider) ==
    registrations[CHOOSE k \in Registered(provider) :
                      \A j \in Registered(provider) : j <= k][2]

\* C12: create_adapter raises the unknown-provider error exactly when no
\* register_adapter call was ever made for the provider type, and otherwise
\* calls the constructor of the class of the latest such call: an instance it
\* returns is of that class, and any other failure is that constructor's.
C12_CreateUsesLatestRegistration ==
    (last # Nil /\ last.op = "create_adapter") =>
        LET p == last.provider
            c == last.ret
        IN IF Registered(p) = {}
           THEN ~c.ok /\ c.why = "unsupported_provider"
           ELSE /\ c.ok => c.adapter.cls = LastRegistered(p)
                /\ ~c.ok => /\ c.why # "unsupported_provider"
                            /\ LastRegistered(p) = "azure"
                            /\ Falsy(last.kwargs.endpoint)

\* OpenAI registered, then overwritten: create builds the later class
C12_Witness ==
    /\ last # Nil
    /\ last.op = "create_adapter"
    /\ last.provider = "openai"
    /\ registrations = <<<<"openai", "openai">>, <<"openai", "custom">>>>
    /\ last.ret.ok
    /\ last.ret.adapter.cls = "custom"

RECURSIVE SumSeq(_)
SumSeq(q) == IF q = <<>> THEN 0 ELSE Head(q) + SumSeq(Tail(q))

RECURSIVE Pow(_, _)
Pow(b, e) == IF e = 0 THEN 1 ELSE b * Pow(b, e - 1)

\* C13 as claimed: the sleeps of one generate call add up to at most
\* initial_delay * (1 + exponential_base) = 3 s.
C13_SleepAtMostThreeSeconds ==
    active # 0 =>
        SumSeq(slept) <= InitialDelayMs * (1 + ExponentialBase)

\* C13 as amended: one generate call sleeps at most max_retries - 1 = 2
\* times; the first sleep is initial_delay, and with jitter on the sleep
\* before retry k lies between initial_delay * (exponential_base * 0.5)^k and
\* initial_delay * (exponential_base * 1.5)^k, so the total is below
\* 1 s + 3 s = 4 s.
C13_SleepBelowFourSeconds ==
    active # 0 =>
        /\ Len(slept) <= DefaultMaxRetries - 1
        /\ \A k \in 1..Len(slept) :
              /\ slept[k] * Pow(10, k - 1)
                    >= InitialDelayMs * Pow(ExponentialBase * 5, k - 1)
              /\ slept[k] * Pow(10, k - 1)
                    <= InitialDelayMs * Pow(ExponentialBase * 15, k - 1)
        /\ SumSeq(slept) < InitialDelayMs * (1 + ExponentialBase) + InitialDelayMs

\* a call that slept 1 s and then 2.8 s
C13_Witness ==
    /\ active # 0
    /\ slept = <<1000, 2800>>
    /\ wpc = "raised"

\* the generate call in progress has handed a response to its caller
Responded == active # 0 /\ wpc = "returned"
Response == result.value

\* C14: the latency a response reports is the time its vendor call took, with
\* no time of validation, message building or image encoding in it.
C14_LatencyIsNetworkTime ==
    Responded => Response.latency = vendor_reply.took

\* C15: when the vendor's reply carries no token counts, the response's
\* counts are the word counts of the prompt and of the reply text times 1.3
\* (as whole numbers), and not zero.
C15_MissingCountsApproximated ==
    (Responded /\ ~vendor_reply.usage.present) =>
        /\ Response.input_tokens = (orig_request.prompt_words * 13) \div 10
        /\ Response.output_tokens = (vendor_reply.words * 13) \div 10
        /\ Response.input_tokens # 0
        /\ Response.output_tokens # 0

\* C16: calculate_cost(input_tokens, output_tokens, model) is
\* input_tokens/1000 * cost_per_1k_input + output_tokens/1000 * cost_per_1k_output
\* of the descriptor the adapter gives for the model (here in 1e-10 USD, the
\* per-1k costs being in 1e-7 USD), and for 1000 and 1000 tokens the sum of
\* the two per-1k costs.
C16_CostFormula ==
    (last # Nil /\ last.op = "calculate_cost") =>
        LET c == get_model_capabilities(last.adapter.cls, last.model) IN
        /\ last.ret = last.input_tokens * c.cost_per_1k_input_tokens
                       + last.output_tokens * c.cost_per_1k_output_tokens
        /\ (last.input_tokens = 1000 /\ last.output_tokens = 1000) =>
              last.ret = 1000 * (c.cost_per_1k_input_tokens + c.cost_per_1k_output_tokens)
        /\ last.ret >= 0

\* gpt-4: 0.03 + 0.06 USD for 1000 tokens in and 1000 out
C16_Witness ==
    /\ last # Nil
    /\ last.op = "calculate_cost"
    /\ last.adapter.cls = "openai"
    /\ last.model = "gpt-4"
    /\ last.input_tokens = 1000
    /\ last.output_tokens = 1000
    /\ last.ret = 900000000

\* C17: a text-only request answered by the vendor with text T and token
\* counts I and O yields a response with that text and those counts, the
\* resolved model, the cost I/1000 * cost_in + O/1000 * cost_out of the resolved
\* model's descriptor (in 1e-10 USD) and a latency that is not negative.
C17_TextOnlyResponse ==
    (Responded /\ orig_request.images = 0 /\ vendor_reply.usage.present) =>
        /\ Response.text = vendor_reply.text
        /\ Response.input_tokens = vendor_reply.usage.input
        /\ Response.output_tokens = vendor_reply.usage.output
        /\ Response.model = (IF orig_request.model \in {None, ""}
                             THEN Caller.default_model ELSE orig_request.model)
        /\ Response.cost =
              vendor_reply.usage.input * AskedCaps.cost_per_1k_input_tokens
              + vendor_reply.usage.output * AskedCaps.cost_per_1k_output_tokens
        /\ Response.latency >= 0

\* "ok", 10 and 5 tokens on gpt-4o: 10/1000 * 0.005 + 5/1000 * 0.015 USD
C17_Witness ==
    /\ Responded
    /\ Caller.cls = "openai"
    /\ orig_request = Request(None, 0, 4096)
    /\ vendor_reply = VendorOk(Short, Usage(10, 5), 0)
    /\ Response.text = "ok"
    /\ Response.model = "gpt-4o"
    /\ Response.cost = 1250000

\* C18: no Azure adapter instance has an absent or empty endpoint, and a
\* construction without endpoint raises in the constructor.
C18_AzureEndpointRequired ==
    /\ \A i \in 1..Len(adapters) :
          adapters[i].cls = "azure" => adapters[i].endpoint \notin {None, ""}
    /\ (/\ last # Nil
        /\ last.op = "create_adapter"
        /\ last.provider = "azure"
        /\ last.kwargs.endpoint \in {None, ""})
       => (~last.ret.ok /\ last.ret.why = "endpoint_required")

\* an Azure construction with endpoint "" has just failed
C18_Witness ==
    /\ last # Nil
    /\ last.op = "create_adapter"
    /\ last.provider = "azure"
    /\ last.kwargs.endpoint = ""
    /\ ~last.ret.ok
    /\ \A i \in 1..Len(adapters) : adapters[i].cls # "azure"

\* C19: while attempts remain, a failed invocation is followed by a sleep and
\* another attempt whatever exception it raised; the exception type has no
\* effect on the number of invocations or sleeps.
C19_RetryIsBlind ==
    (max_retries >= 1 /\ invocations # <<>> /\ AllRaised(invocations)) =>
        /\ Len(invocations) < max_retries =>
              wpc = "running" /\ Len(slept) = Len(invocations)
        /\ Len(invocations) = max_retries =>
              wpc = "raised" /\ Len(slept) = max_retries - 1

\* three authentication errors in a row: three invocations, two sleeps
C19_Witness ==
    /\ wpc = "raised"
    /\ max_retries = 3
    /\ Len(invocations) = 3
    /\ \A k \in 1..3 : invocations[k] = Raised("AuthenticationError", "vendor")
    /\ Len(slept) = 2

\* C20: throughout a generate call the request keeps its model, images and
\* prompt, its max_tokens is the caller's value or, when that was larger, the
\* resolved model's ceiling, and the adapter instance keeps all its fields.
C20_GenerateFrame ==
    [][active' # 0 =>
          /\ request'.model = orig_request'.model
          /\ request'.images = orig_request'.images
          /\ request'.prompt_words = orig_request'.prompt_words
          /\ request'.max_tokens <= orig_request'.max_tokens
          /\ request'.max_tokens \in {orig_request'.max_tokens, AskedCaps'.max_tokens}
          /\ active # 0 => (adapters' = adapters /\ orig_request' = orig_request)
      ]_vars

\* a request clamped from 40000 to 16384 tokens, nothing else touched
C20_Witness ==
    /\ Responded
    /\ orig_request = Request("gpt-4o-mini", 0, 40000)
    /\ request = Request("gpt-4o-mini", 0, 16384)

\* the caller holds the outcome of create_llm_adapter(provider) made without
\* an explicit key
CreatedWithoutKey(provider) ==
    /\ last # Nil
    /\ last.op = "create_llm_adapter"
    /\ last.provider = provider
    /\ Falsy(last.api_key)

\* C21: create_llm_adapter without explicit api_key, for a built-in provider
\* whose credential resolves to NOT_SET in all three tiers, raises the
\* missing-credential error: no adapter has been constructed (none is returned,
\* none is alive, the module-global Gemini key is untouched), no network call
\* has been made, and the retry wrapper has not run (no invocation, no sleep).
C21_MissingCredentialRaised ==
    \A p \in {"openai", "azure", "mistral"} :
        (CreatedWithoutKey(p)
         /\ get_api_key(p, api_keys, azure_endpoint, secrets, environ).source = NOT_SET) =>
            /\ last.ret = ConstructFailed("ValueError", "no_api_key", genai_api_key)
            /\ adapters = <<>>
            /\ net_calls = 0
            /\ wpc = "idle"
            /\ invocations = <<>>
            /\ slept = <<>>

\* create_llm_adapter('openai') with nothing in session, secret store or
\* environment has just raised
C21_Witness ==
    /\ CreatedWithoutKey("openai")
    /\ api_keys = <<>>
    /\ "OPENAI_API_KEY" \notin DOMAIN secrets
    /\ "OPENAI_API_KEY" \notin DOMAIN environ
    /\ ~last.ret.ok
    /\ last.ret.why = "no_api_key"

\* the delay after a sleep of d, over the jitter factors random() can give
DelaysAfter(d, jit) == {NextDelay(d, jit, f) : f \in JitterTenths}

\* C22: with max_retries >= 1 the wrapper sleeps once after every failed
\* attempt but the last allowed one, and never after a success: while it runs
\* there are as many sleeps as (failed) invocations, and when it has returned
\* or raised there is one sleep less than invocations; the first sleep lasts
\* initial_delay, every sleep lasts the delay current at that moment, and the
\* delay is multiplied by the base (and the jitter factor) only after the
\* sleep; with jitter off the k-th sleep lasts initial_delay * base^(k-1).
C22_SleepBetweenAttempts ==
    (max_retries >= 1 /\ wpc # "idle") =>
        LET n == Len(slept) IN
        /\ n <= max_retries - 1
        /\ wpc = "running" => n = Len(invocations)
        /\ wpc \in {"returned", "raised"} => n = Len(invocations) - 1
        /\ \A k \in 1..n : ~invocations[k].ok
        /\ n = 0 => delay = InitialDelayMs
        /\ n > 0 => slept[1] = InitialDelayMs /\ delay \in DelaysAfter(slept[n], jitter)
        /\ \A k \in 2..n : slept[k] \in DelaysAfter(slept[k - 1], jitter)
        /\ ~jitter => \A k \in 1..n : slept[k] = InitialDelayMs * Pow(ExponentialBase, k - 1)

\* jitter off, max_retries = 3, three failures: sleeps of 1 s and 2 s, none
\* after the third failure
C22_Witness ==
    /\ wpc = "raised"
    /\ max_retries = 3
    /\ ~jitter
    /\ Len(invocations) = 3
    /\ slept = <<InitialDelayMs, InitialDelayMs * ExponentialBase>>

\* the single-key built-in providers whose session key the caller sets and
\* clears
SetProviders == KeyProviders \cap SingleKeyProviders

\* a key text without its surrounding blanks, spelled out for the texts typed
Stripped(k) == IF k = " k1 " THEN "k1" ELSE k

\* what the secret store and the environment alone resolve for a provider
WithoutSession(provider) == get_api_key(provider, <<>>, "", secrets, environ)

\* C23: for a single-key built-in provider p, after set_api_key(p, k) with a
\* non-blank k get_api_key(p) is (k stripped, SESSION) whatever the secret store
\* and the environment hold; set_api_key with an empty or blank key changes
\* nothing of the session; after clear_api_key(p) get_api_key(p) is what the
\* secret store and the environment alone resolve to, and every other
\* provider's session key, the Azure endpoint and the custom providers are as
\* before.
C23_SetClearGet ==
    [][\A p \in SetProviders :
          /\ \A k \in KeyInputs, e \in EndpointInputs :
                \* (set_api_key and clear_api_key return nothing: `last` is Nil)
                (last' = Nil /\ SetApiKey(p, k, e)) =>
                    IF k \in {"", " "}
                    THEN /\ api_keys' = api_keys
                         /\ azure_endpoint' = azure_endpoint
                         /\ custom_providers' = custom_providers
                    ELSE /\ get_api_key(p, api_keys', azure_endpoint', secrets', environ')
                               = Resolved(Stripped(k), None, SESSION)
                         /\ \A q \in DOMAIN api_keys \ {p} :
                               q \in DOMAIN api_keys' /\ api_keys'[q] = api_keys[q]
          /\ (last' = Nil /\ ClearApiKey(p)) =>
                /\ get_api_key(p, api_keys', azure_endpoint', secrets', environ')
                      = WithoutSession(p)
                /\ DOMAIN api_keys' = DOMAIN api_keys \ {p}
                /\ \A q \in DOMAIN api_keys' : api_keys'[q] = api_keys[q]
                /\ azure_endpoint' = azure_endpoint
                /\ custom_providers' = custom_providers
      ]_vars

\* ' k1 ' was set for openai over a secret-store value; get_api_key('openai')
\* has just answered ('k1', SESSION), the Azure session key being k2
C23_Witness ==
    /\ Asked("openai")
    /\ last.ret = Resolved("k1", None, SESSION)
    /\ Holds(secrets, "OPENAI_API_KEY")
    /\ InSession("azure")
    /\ api_keys["azure"] = "k2"

\* the caller holds the outcome of get_available_providers_info()
ProvidersListed ==
    /\ last # Nil
    /\ last.op = "get_available_providers_info"

\* C24: get_available_providers_info returns a mapping (it does not raise)
\* whose keys are the built-in providers get_api_key resolves a credential for
\* (Azure: key and endpoint) and the configured custom providers that have a
\* stored API key.
C24_AvailableProvidersListed ==
    ProvidersListed =>
        /\ last.ret.ok
        /\ \A p \in BuiltinClasses :
              p \in last.ret.value <=>
                  LET got == get_api_key(p, api_keys, azure_endpoint, secrets, environ)
                  IN /\ got.source # NOT_SET
                     /\ ~Falsy(got.key)
                     /\ p = "azure" => ~Falsy(got.endpoint)
        /\ \A id \in CustomIds :
              id \in last.ret.value <=> (id \in DOMAIN custom_providers /\ InSession(id))

\* C25: while a custom provider P added with a non-empty api_key is neither
\* removed nor cleared (its configuration and its session key are in place),
\* get_api_key(P) returns (that api_key, SESSION).
C25_CustomKeyResolved ==
    \A id \in CustomIds :
        (Asked(id) /\ id \in DOMAIN custom_providers /\ InSession(id)) =>
            last.ret = Resolved(api_keys[id], None, SESSION)

\* C26: a get_api_key answer with a source other than NOT_SET carries a
\* non-empty credential (Azure: non-empty key and endpoint), and an empty value
\* in the session or the secret store does not hide a non-empty value of the
\* environment: with no usable session or secret value the environment's
\* non-empty value is the answer.
C26_ReportedCredentialNonEmpty ==
    \A p \in KeyProviders :
        Asked(p) =>
            /\ last.ret.source # NOT_SET =>
                  /\ ~Falsy(last.ret.key)
                  /\ p = "azure" => ~Falsy(last.ret.endpoint)
            /\ (/\ p = "openai"
                /\ ~InSession(p)
                /\ ~Holds(secrets, "OPENAI_API_KEY")
                /\ Holds(environ, "OPENAI_API_KEY"))
               => last.ret = Resolved(environ["OPENAI_API_KEY"], None, ENV)
            /\ (/\ p = "azure"
                /\ ~(InSession(p) /\ azure_endpoint # "")
                /\ ~(Holds(secrets, "AZURE_OPENAI_KEY")
                     /\ Holds(secrets, "AZURE_OPENAI_ENDPOINT"))
                /\ Holds(environ, "AZURE_OPENAI_KEY")
                /\ Holds(environ, "AZURE_OPENAI_ENDPOINT"))
               => last.ret = Resolved(environ["AZURE_OPENAI_KEY"],
                                      environ["AZURE_OPENAI_ENDPOINT"], ENV)

\* C27: whatever max_retries is, a wrapper that has returned to its caller
\* has invoked the callable at least once, and it hands over the value the
\* last invocation returned or the exception the last invocation raised.
C27_NeverReturnsUninvoked ==
    wpc \in {"returned", "raised"} =>
        /\ invocations # <<>>
        /\ result = invocations[Len(invocations)]
        /\ wpc = "returned" <=> result.ok

\* the caller holds the text export_to_env_format() returned
Exported ==
    /\ last # Nil
    /\ last.op = "export_to_env_format"

\* the non-empty values a store holds
ValuesOf(store) == {store[n] : n \in DOMAIN store} \ {""}

\* the NAME=value lines the session tier accounts for
SessionAssignments ==
    {Assignment(KeyName(p), api_keys[p]) : p \in {q \in SingleKeyProviders : InSession(q)}}
    \cup (IF InSession("azure") /\ azure_endpoint # ""
          THEN {Assignment("AZURE_OPENAI_KEY", api_keys["azure"]),
                Assignment("AZURE_OPENAI_ENDPOINT", azure_endpoint)}
          ELSE {})

\* C28: every NAME=value line of the exported text belongs to a provider
\* whose credential resolves from the session tier and carries the session
\* value; no value held only by the secret store or the environment is in the
\* text.
C28_ExportOnlySession ==
    Exported =>
        \A i \in 1..Len(last.ret) :
            last.ret[i].kind = "assignment" =>
                /\ last.ret[i] \in SessionAssignments
                /\ last.ret[i].value \notin ValuesOf(secrets) \cup ValuesOf(environ)

\* OPENAI_API_KEY=k1 is exported from the session while the Azure pair that
\* resolves from the secret store is left out
C28_Witness ==
    /\ Exported
    /\ last.ret = ExportHeader \o <<Assignment("OPENAI_API_KEY", "k1")>>
    /\ Holds(secrets, "AZURE_OPENAI_KEY")
    /\ Holds(secrets, "AZURE_OPENAI_ENDPOINT")
    /\ ~InSession("azure")

\* C29: in a session that starts empty and sees only add_custom_provider and
\* remove_custom_provider calls, the ids with a configuration in
\* custom_providers are the ids with an entry in the session api_keys, and
\* remove_custom_provider of an id that has no configuration changes nothing.
C29_ConfigIffKey ==
    [][/\ DOMAIN custom_providers' = DOMAIN api_keys'
       /\ \A id \in RemoveIds :
             (id \notin DOMAIN custom_providers /\ RemoveCustomProvider(id)) =>
                 UNCHANGED <<custom_providers, api_keys, azure_endpoint, secrets, environ>>
      ]_vars

\* after a remove_custom_provider call 'custom_my_llm' is the one provider
\* left, with its configuration and its key
C29_Witness ==
    /\ last = Nil
    /\ DOMAIN custom_providers = {"custom_my_llm"}
    /\ DOMAIN api_keys = {"custom_my_llm"}
    /\ api_keys["custom_my_llm"] = "ck2"

\* C30: add_custom_provider under a display name leaves every provider
\* configured under a different display name as it was: the new id is none of
\* theirs, and their base URL, default model and API key stay the ones given
\* in their own call.
C30_AddNeverOverwrites ==
    [][\A n \in Names, k \in CustomKeyInputs, m \in {"local-model", "gpt-4o"},
          url \in {"http://localhost:1234/v1", "https://llm.example/v1"} :
          AddCustomProvider(n, url, k, m) =>
              \A id \in DOMAIN custom_providers :
                  custom_providers[id].name # Text(n) =>
                      /\ last'.id # id
                      /\ custom_providers'[id] = custom_providers[id]
                      /\ api_keys'[id] = api_keys[id]
      ]_vars

====
